---- MODULE Spec2Model ----
(***************************************************************************)
(* ocralign/ocr.py: process_pdf (the page-by-page OCR pipeline) and        *)
(* write_to_txt (the transcript writer).                                   *)
(*                                                                         *)
(* A Python str is a sequence of one-character strings.  Python None is    *)
(* the value NONE.  A page object and a page image are identified by the   *)
(* index of the page they come from; NoRef is "no object".  The external   *)
(* collaborators (fitz.open, load_page, get_pixmap/Image.frombytes,        *)
(* process_page, open/write of the output file) either succeed or raise,   *)
(* chosen nondeterministically at the call.                                *)
(***************************************************************************)
EXTENDS Integers, Sequences, FiniteSets, TLC

\* ------------------------------------------------------------------ bounds
MaxPages == 3
MaxList == 2
MaxTextLen == 2

\* --------------------------------------------------------------- constants
NONE == "<None>"
NoRef == 0 - 1
RealPath == "out.txt"
OutputPaths == {NONE, "", RealPath}

Alphabet == {"a", " "}
\* the ASCII part of what str.strip() removes that a TLA+ string can spell
Whitespace == {" ", "\t", "\n", "\r", "\f"}

Hello == <<"H", "e", "l", "l", "o">>
World == <<"W", "o", "r", "l", "d">>

StrsUpTo(n) == UNION {[1..k -> Alphabet] : k \in 0..n}
\* texts write_to_txt is exercised with
Texts == StrsUpTo(MaxTextLen) \cup {Hello, World, <<"\n", "a", " ", "b", "\t">>}
\* texts the recognizer stub returns in a process_pdf run
PageTexts == {<<"a">>, <<" ", "a", "\n">>, <<>>}
OldContent == <<"o", "l", "d">>
NoFileState == [exists |-> FALSE, content |-> <<>>]
Files == {NoFileState, [exists |-> TRUE, content |-> OldContent]}
SeqsUpTo(S, n) == UNION {[1..k -> S] : k \in 0..n}

NoExc == [origin |-> "none", page_ref |-> NoRef]
Pending == [kind |-> "pending", value |-> <<>>, exc |-> NoExc]

VARIABLES
    doc_pages,    \* the document: its number of pages
    ocr_text,     \* the recognizer: ocr_text[i] is process_page's text for the image of page i
    output_path,  \* argument of process_pdf / write_to_txt
    fs0,          \* the file at RealPath when the call starts
    fs,           \* the file at RealPath now
    pc,           \* position in the running function
    doc,          \* local doc: "None", "open" or "closed"
    closes,       \* number of doc.close() calls
    page_count,   \* local page_count
    page_index,   \* loop variable
    page,         \* local page (page object reference)
    image,        \* local image of process_pdf (image reference)
    img,          \* local img of _page_to_pil_image (image reference)
    text,         \* local text
    text_pages,   \* local text_pages
    exc,          \* the exception in flight / caught
    result,       \* what the call gives its caller
    live,         \* the page images that exist (are still referenced)
    events        \* trace of collaborator calls: [op, page, ok]

vars == <<doc_pages, ocr_text, output_path, fs0, fs, pc, doc, closes, page_count,
          page_index, page, image, img, text, text_pages, exc, result, live, events>>

\* ------------------------------------------------- write_to_txt, lines 17-26
DigitChars == <<"0", "1", "2", "3", "4", "5", "6", "7", "8", "9">>

RECURSIVE Str(_)
\* str(n) / f"{n}" for n >= 0
Str(n) == IF n < 10 THEN <<DigitChars[n + 1]>>
          ELSE Str(n \div 10) \o <<DigitChars[(n % 10) + 1]>>

RECURSIVE LStrip(_)
LStrip(s) == IF s # <<>> /\ Head(s) \in Whitespace THEN LStrip(Tail(s)) ELSE s

RECURSIVE RStrip(_)
RStrip(s) == IF s # <<>> /\ s[Len(s)] \in Whitespace
             THEN RStrip(SubSeq(s, 1, Len(s) - 1)) ELSE s

\* mutant: only trailing whitespace removed (rstrip)
StripTrailingOnly(s) == RStrip(s)

\* img_text.strip()
Strip(s) == LStrip(RStrip(s))

\* mutant: label carries the 0-based index
PageLabelZeroBased(pg_no) == <<"-", "-", " ", "P", "a", "g", "e", " ">> \o Str(pg_no) \o <<" ", "-", "-", "\n">>

\* f"-- Page {pg_no + 1} --\n"
PageLabel(pg_no) == <<"-", "-", " ", "P", "a", "g", "e", " ">> \o Str(pg_no + 1) \o <<" ", "-", "-", "\n">>

RECURSIVE BuildDocText(_, _, _)
\* the for loop of lines 19-21 over enumerate(text_pages), from index pg_no on
BuildDocText(pages, pg_no, full_doc_text) ==
    IF pg_no >= Len(pages) THEN full_doc_text
    ELSE BuildDocText(pages, pg_no + 1,
                      full_doc_text \o PageLabel(pg_no) \o Strip(pages[pg_no + 1]) \o <<"\n", "\n">>)

FullDocText(pages) == BuildDocText(pages, 0, <<>>)

\* ------------------------------------------------------------- helpers
Log(op, p, ok) == events' = Append(events, [op |-> op, page |-> p, ok |-> ok])

\* an exception leaves the try body: control goes to the except clause
Raise(origin, ref) ==
    /\ exc' = [origin |-> origin, page_ref |-> ref]
    /\ pc' = "except"

\* Python truth value of an Optional[str]
Truthy(v) == v \notin {NONE, ""}

\* mutant: range(page_count + 1)
RangeInclusive(n) == 0..n

\* range(page_count), line 74
Range(n) == 0..(n - 1)

\* mutant: text_pages.insert(0, text)
ListPrepend(l, x) == <<x>> \o l

\* text_pages.append(text), line 79
ListAppend(l, x) == Append(l, x)

\* mutant: the previous image stays referenced (e.g. collected in a list)
ReleasedNever(old, new) == {}

\* the image objects that lose their last reference when `image`, bound to
\* old, is rebound to new (line 77)
Released(old, new) == {old} \ {new, NoRef}

\* mutant: raise RuntimeError(f"page {page_index}: ...") from e
ReraiseWithPage(e) == [origin |-> "process_pdf", page_ref |-> page_index]

\* bare `raise` in the except clause, line 90: the caught exception itself
Reraise(e) == e

\* ---------------------------------------------------------------- Init
Init ==
    /\ doc_pages \in 0..MaxPages
    /\ ocr_text \in [0..(doc_pages - 1) -> PageTexts]
    /\ output_path \in OutputPaths
    /\ fs0 \in Files
    /\ fs = fs0
    /\ pc = "start"
    /\ doc = "None"
    /\ closes = 0
    /\ page_count = 0
    /\ page_index = NoRef
    /\ page = NoRef
    /\ image = NoRef
    /\ img = NoRef
    /\ text = <<>>
    /\ text_pages = <<>>
    /\ exc = NoExc
    /\ result = Pending
    /\ live = {}
    /\ events = <<>>

\* ------------------------------------------------- process_pdf, lines 64-93
\* doc = fitz.open(pdf_path), line 67
Open ==
    /\ pc = "start"
    /\ \/ /\ doc' = "open"
          /\ Log("open", NoRef, TRUE)
          /\ pc' = "page_count"
          /\ UNCHANGED exc
       \/ /\ Log("open", NoRef, FALSE)
          /\ Raise("fitz.open", NoRef)
          /\ UNCHANGED doc
    /\ UNCHANGED <<doc_pages, ocr_text, output_path, fs0, fs, closes, page_count,
                   page_index, page, image, img, text, text_pages, result, live>>

\* page_count = doc.page_count; text_pages = [], lines 68-71
PageCount ==
    /\ pc = "page_count"
    /\ page_count' = doc_pages
    /\ text_pages' = <<>>
    /\ pc' = "for"
    /\ UNCHANGED <<doc_pages, ocr_text, output_path, fs0, fs, doc, closes,
                   page_index, page, image, img, text, exc, result, live, events>>

\* for page_index in range(page_count), line 74
ForNext ==
    /\ pc = "for"
    /\ IF page_index + 1 \in Range(page_count)
       THEN /\ page_index' = page_index + 1
            /\ pc' = "load_page"
       ELSE /\ pc' = "if_output_path"
            /\ UNCHANGED page_index
    /\ UNCHANGED <<doc_pages, ocr_text, output_path, fs0, fs, doc, closes, page_count,
                   page, image, img, text, text_pages, exc, result, live, events>>

\* page = doc.load_page(page_index), line 76
LoadPage ==
    /\ pc = "load_page"
    /\ \/ /\ page_index \in 0..(doc_pages - 1)
          /\ page' = page_index
          /\ Log("load", page_index, TRUE)
          /\ pc' = "render"
          /\ UNCHANGED exc
       \/ /\ Log("load", page_index, FALSE)
          /\ \E ref \in {NoRef, page_index} : Raise("load_page", ref)
          /\ UNCHANGED page
    /\ UNCHANGED <<doc_pages, ocr_text, output_path, fs0, fs, doc, closes, page_count,
                   page_index, image, img, text, text_pages, result, live>>

\* the body of _page_to_pil_image(page, dpi), lines 34-39: img is a new image
Render ==
    /\ pc = "render"
    /\ \/ /\ img' = page
          /\ live' = live \cup {page}
          /\ Log("render", page, TRUE)
          /\ pc' = "bind_image"
          /\ UNCHANGED exc
       \/ /\ Log("render", page, FALSE)
          /\ \E ref \in {NoRef, page} : Raise("get_pixmap", ref)
          /\ UNCHANGED <<img, live>>
    /\ UNCHANGED <<doc_pages, ocr_text, output_path, fs0, fs, doc, closes, page_count,
                   page_index, page, image, text, text_pages, result>>

\* return img (line 40) and image = ... (line 77): the name is rebound
BindImage ==
    /\ pc = "bind_image"
    /\ image' = img
    /\ img' = NoRef
    /\ live' = live \ Released(image, img)
    /\ pc' = "process_page"
    /\ UNCHANGED <<doc_pages, ocr_text, output_path, fs0, fs, doc, closes, page_count,
                   page_index, page, text, text_pages, exc, result, events>>

\* mutant: a failed recognition is tried once more
RecognizeWithRetry ==
    /\ pc = "process_page"
    /\ \/ /\ text' = ocr_text[image]
          /\ Log("recognize", image, TRUE)
          /\ pc' = "append"
          /\ UNCHANGED exc
       \/ /\ Log("recognize", image, FALSE)
          /\ IF \E j \in 1..Len(events) : events[j] = [op |-> "recognize", page |-> image, ok |-> FALSE]
             THEN Raise("process_page", NoRef)
             ELSE UNCHANGED <<pc, exc>>
          /\ UNCHANGED text
    /\ UNCHANGED <<doc_pages, ocr_text, output_path, fs0, fs, doc, closes, page_count,
                   page_index, page, image, img, text_pages, result, live>>

\* text = process_page(image), line 78: the recognizer sees the image only
Recognize ==
    /\ pc = "process_page"
    /\ \/ /\ text' = ocr_text[image]
          /\ Log("recognize", image, TRUE)
          /\ pc' = "append"
          /\ UNCHANGED exc
       \/ /\ Log("recognize", image, FALSE)
          /\ Raise("process_page", NoRef)
          /\ UNCHANGED text
    /\ UNCHANGED <<doc_pages, ocr_text, output_path, fs0, fs, doc, closes, page_count,
                   page_index, page, image, img, text_pages, result, live>>

\* text_pages.append(text), line 79
AppendText ==
    /\ pc = "append"
    /\ text_pages' = ListAppend(text_pages, text)
    /\ Log("append", page_index, TRUE)
    /\ pc' = "for"
    /\ UNCHANGED <<doc_pages, ocr_text, output_path, fs0, fs, doc, closes, page_count,
                   page_index, page, image, img, text, exc, result, live>>

\* if output_path: ... else: return text_pages, lines 82, 85-86
IfOutputPath ==
    /\ pc = "if_output_path"
    /\ IF Truthy(output_path)
       THEN /\ pc' = "write_to_txt"
            /\ UNCHANGED result
       ELSE /\ result' = [kind |-> "list", value |-> text_pages, exc |-> NoExc]
            /\ pc' = "finally"
    /\ UNCHANGED <<doc_pages, ocr_text, output_path, fs0, fs, doc, closes, page_count,
                   page_index, page, image, img, text, text_pages, exc, live, events>>

\* write_to_txt(output_path, text_pages), lines 17-26, continuing at ret
\* when it returns and at handler when open() or f_.write() raises
WriteToTxt(ret, handler) ==
    \/ /\ fs' = [exists |-> TRUE, content |-> FullDocText(text_pages)]
       /\ Log("write", NoRef, TRUE)
       /\ pc' = ret
       /\ UNCHANGED exc
    \/ /\ Log("write", NoRef, FALSE)
       /\ exc' = [origin |-> "open", page_ref |-> NoRef]
       /\ pc' = handler
       /\ UNCHANGED fs
    \/ /\ \E k \in 0..(Len(FullDocText(text_pages)) - 1) :
              fs' = [exists |-> TRUE, content |-> SubSeq(FullDocText(text_pages), 1, k)]
       /\ Log("write", NoRef, FALSE)
       /\ exc' = [origin |-> "write", page_ref |-> NoRef]
       /\ pc' = handler

\* mutant: a failed write is logged and the call returns None
WriteSwallowError ==
    /\ pc = "write_to_txt"
    /\ WriteToTxt("finally", "finally")
    /\ result' = [kind |-> "none", value |-> <<>>, exc |-> NoExc]
    /\ UNCHANGED <<doc_pages, ocr_text, output_path, fs0, doc, closes, page_count,
                   page_index, page, image, img, text, text_pages, live>>

\* write_to_txt(output_path, text_pages); return None, lines 83-84
Write ==
    /\ pc = "write_to_txt"
    /\ WriteToTxt("finally", "except")
    /\ result' = IF pc' = "finally"
                 THEN [kind |-> "none", value |-> <<>>, exc |-> NoExc]
                 ELSE result
    /\ UNCHANGED <<doc_pages, ocr_text, output_path, fs0, doc, closes, page_count,
                   page_index, page, image, img, text, text_pages, live>>

\* mutant: except Exception: log and return what was collected so far
ExceptReturnPartial ==
    /\ pc = "except"
    /\ result' = [kind |-> "list", value |-> text_pages, exc |-> NoExc]
    /\ pc' = "finally"
    /\ UNCHANGED <<doc_pages, ocr_text, output_path, fs0, fs, doc, closes, page_count,
                   page_index, page, image, img, text, text_pages, exc, live, events>>

\* except Exception as e: logger.error(...); raise, lines 88-90
Except ==
    /\ pc = "except"
    /\ result' = [kind |-> "raise", value |-> <<>>, exc |-> Reraise(exc)]
    /\ pc' = "finally"
    /\ UNCHANGED <<doc_pages, ocr_text, output_path, fs0, fs, doc, closes, page_count,
                   page_index, page, image, img, text, text_pages, exc, live, events>>

\* mutant: the document is closed on the normal path only
FinallyCloseOnSuccessOnly ==
    /\ pc = "finally"
    /\ IF doc # "None" /\ exc = NoExc
       THEN /\ doc' = "closed"
            /\ closes' = closes + 1
            /\ Log("close", NoRef, TRUE)
       ELSE UNCHANGED <<doc, closes, events>>
    /\ pc' = "done"
    /\ UNCHANGED <<doc_pages, ocr_text, output_path, fs0, fs, page_count,
                   page_index, page, image, img, text, text_pages, exc, result, live>>

\* finally: if doc is not None: doc.close(), lines 91-93; then control
\* returns to the caller
Finally ==
    /\ pc = "finally"
    /\ IF doc # "None"
       THEN /\ doc' = "closed"
            /\ closes' = closes + 1
            /\ Log("close", NoRef, TRUE)
       ELSE UNCHANGED <<doc, closes, events>>
    /\ pc' = "done"
    /\ UNCHANGED <<doc_pages, ocr_text, output_path, fs0, fs, page_count,
                   page_index, page, image, img, text, text_pages, exc, result, live>>

Next ==
    \/ Open
    \/ PageCount
    \/ ForNext
    \/ LoadPage
    \/ Render
    \/ BindImage
    \/ Recognize
    \/ AppendText
    \/ IfOutputPath
    \/ Write
    \/ Except
    \/ Finally

Spec == Init /\ [][Next]_vars

\* ------------------------------------- write_to_txt called on its own
InitWrite ==
    /\ text_pages \in SeqsUpTo(Texts, MaxList)
    /\ output_path = RealPath
    /\ fs0 \in Files
    /\ fs = fs0
    /\ pc = "write_to_txt"
    /\ doc_pages = 0
    /\ ocr_text = <<>>
    /\ doc = "None"
    /\ closes = 0
    /\ page_count = 0
    /\ page_index = NoRef
    /\ page = NoRef
    /\ image = NoRef
    /\ img = NoRef
    /\ text = <<>>
    /\ exc = NoExc
    /\ result = Pending
    /\ live = {}
    /\ events = <<>>

CallWriteToTxt ==
    /\ pc = "write_to_txt"
    /\ WriteToTxt("returned", "raised")
    /\ result' = IF pc' = "returned"
                 THEN [kind |-> "none", value |-> <<>>, exc |-> NoExc]
                 ELSE [kind |-> "raise", value |-> <<>>, exc |-> exc']
    /\ UNCHANGED <<doc_pages, ocr_text, output_path, fs0, doc, closes, page_count,
                   page_index, page, image, img, text, text_pages, live>>

NextWrite == CallWriteToTxt

SpecWrite == InitWrite /\ [][NextWrite]_vars

\* ------------------------------------------------------------ properties
PageOps == {"load", "render", "recognize"}
NoneResult == [kind |-> "none", value |-> <<>>, exc |-> NoExc]
OpenOk == \E j \in 1..Len(events) : events[j].op = "open" /\ events[j].ok
FailedAt(j) == events[j].op \in PageOps /\ ~events[j].ok
PageFailed == \E j \in 1..Len(events) : FailedAt(j)
WriteFailed == \E j \in 1..Len(events) : events[j].op = "write" /\ ~events[j].ok
FileAt(p) == IF p = RealPath THEN fs ELSE NoFileState
\* the recognizer's outputs for pages 0..N-1 of the document, in page order
RecognizerOutputs == [i \in 1..doc_pages |-> ocr_text[i - 1]]

\* C1: a run that does not raise has collected exactly N texts, entry i being
\* the recognizer's output for page i, and it is this list that is returned
\* or that write_to_txt formats into the file.
C1_AllPagesInOrder ==
    (pc = "done" /\ result.kind # "raise") =>
        /\ Len(text_pages) = doc_pages
        /\ \A i \in 0..(doc_pages - 1) : text_pages[i + 1] = ocr_text[i]
        /\ result.kind = "list" => result.value = RecognizerOutputs
        /\ result.kind = "none" => fs.content = FullDocText(RecognizerOutputs)

C1_Witness ==
    /\ pc = "done"
    /\ result.kind = "list"
    /\ doc_pages >= 3
    /\ ocr_text[0] # ocr_text[1]
    /\ ocr_text[1] # ocr_text[2]

\* C2: doc.close() is never called twice; when control is back at the caller
\* it was called exactly once if fitz.open succeeded (whatever the exit path)
\* and never if fitz.open raised.
C2_ClosedExactlyOnce ==
    /\ closes <= 1
    /\ ~OpenOk => closes = 0 /\ doc = "None"
    /\ (pc = "done" /\ OpenOk) => closes = 1 /\ doc = "closed"

C2_Witness ==
    /\ pc = "done"
    /\ exc.origin = "write"
    /\ closes = 1

\* C3: once a load, render or recognition step fails on page k nothing but
\* doc.close() follows it, no step ever touches a page above k, the output
\* file is as it was before the call, and the call ends by raising.
C3_AbortOnPageFailure ==
    \A j \in 1..Len(events) : FailedAt(j) =>
        /\ \A m \in (j + 1)..Len(events) : events[m].op = "close"
        /\ \A m \in 1..Len(events) : events[m].op \in PageOps \cup {"append"}
                                        => events[m].page <= events[j].page
        /\ fs = fs0
        /\ result.kind \in {"pending", "raise"}
        /\ pc = "done" => result.kind = "raise" /\ result.value = <<>>

C3_Witness ==
    /\ pc = "done"
    /\ exc.origin = "process_page"
    /\ page_index = 1
    /\ Len(text_pages) = 1
    /\ output_path = RealPath
    /\ fs0.exists

\* C4: on a run that does not raise, every output_path other than None gives
\* a None result and the transcript in the file at that path; None gives the
\* list and leaves the file system alone.
C4_ProvidedPathWritesFile ==
    (pc = "done" /\ result.kind # "raise") =>
        IF output_path # NONE
        THEN /\ result = NoneResult
             /\ FileAt(output_path) = [exists |-> TRUE, content |-> FullDocText(text_pages)]
        ELSE /\ result.kind = "list"
             /\ result.value = text_pages
             /\ fs = fs0

\* the claim's own reading of the format, for C5
IsBlank(s) == \A j \in 1..Len(s) : s[j] \in Whitespace
\* the text without its leading and trailing whitespace
Trim(t) ==
    CHOOSE c \in {SubSeq(t, a, b) : a \in 1..(Len(t) + 1), b \in 0..Len(t)} :
        /\ c = <<>> \/ (c[1] \notin Whitespace /\ c[Len(c)] \notin Whitespace)
        /\ \E a \in 1..(Len(t) + 1), b \in 0..Len(t) :
              /\ c = SubSeq(t, a, b)
              /\ IsBlank(SubSeq(t, 1, a - 1))
              /\ IsBlank(SubSeq(t, b + 1, Len(t)))
Numerals == <<"1", "2", "3", "4", "5", "6", "7", "8", "9">>
Block(n, t) ==
    <<"-", "-", " ", "P", "a", "g", "e", " ", Numerals[n], " ", "-", "-", "\n">>
        \o Trim(t) \o <<"\n", "\n">>
RECURSIVE Blocks(_)
Blocks(pages) ==
    IF pages = <<>> THEN <<>>
    ELSE Blocks(SubSeq(pages, 1, Len(pages) - 1)) \o Block(Len(pages), pages[Len(pages)])
HelloWorldTranscript ==
    <<"-", "-", " ", "P", "a", "g", "e", " ", "1", " ", "-", "-", "\n",
      "H", "e", "l", "l", "o", "\n", "\n",
      "-", "-", " ", "P", "a", "g", "e", " ", "2", " ", "-", "-", "\n",
      "W", "o", "r", "l", "d", "\n", "\n">>

\* C5: when write_to_txt returns, the file holds exactly the blocks
\* "-- Page {i+1} --\n" + trim(t_i) + "\n\n" in index order, whatever it held
\* before; ["Hello", "World"] gives the transcript of the example.
C5_TranscriptFormat ==
    pc = "returned" =>
        /\ fs = [exists |-> TRUE, content |-> Blocks(text_pages)]
        /\ text_pages = <<Hello, World>> => fs.content = HelloWorldTranscript

C5_Witness ==
    /\ pc = "returned"
    /\ fs0.exists
    /\ \/ text_pages = <<Hello, World>>
       \/ text_pages = <<<<" ", "a">>, <<"\n", "a", " ", "b", "\t">>>>

\* C6 as stated: the error raised for a failure on page k carries k.
C6_ErrorCarriesPageIndex ==
    \A j \in 1..Len(events) : (pc = "done" /\ FailedAt(j)) =>
        /\ result.kind = "raise"
        /\ result.exc.page_ref = events[j].page

\* C6 amended: the error raised for a page failure is the failing
\* collaborator's exception itself, unchanged; process_pdf attaches no page
\* index (a recognition failure carries none); nothing is swallowed.
C6_ErrorReraisedUnchanged ==
    (pc = "done" /\ PageFailed) =>
        /\ result.kind = "raise"
        /\ result.exc = exc
        /\ exc.origin \in {"load_page", "get_pixmap", "process_page"}
        /\ exc.origin = "process_page" => result.exc.page_ref = NoRef

C6_Witness ==
    /\ pc = "done"
    /\ result.kind = "raise"
    /\ result.exc.origin = "process_page"
    /\ page_index = 2

C8_ZeroPages ==
    doc_pages = 0 =>
        /\ \A j \in 1..Len(events) : events[j].op \notin PageOps \cup {"append"}
        /\ (pc = "done" /\ OpenOk) =>
              /\ closes = 1
              /\ ~WriteFailed => result.kind # "raise"
              /\ output_path = NONE =>
                    result = [kind |-> "list", value |-> <<>>, exc |-> NoExc] /\ fs = fs0
              /\ (output_path = RealPath /\ ~WriteFailed) =>
                    result = NoneResult /\ fs = [exists |-> TRUE, content |-> <<>>]

C8_Witness ==
    /\ doc_pages = 0
    /\ pc = "done"
    /\ output_path = RealPath
    /\ fs0.exists
    /\ fs = [exists |-> TRUE, content |-> <<>>]
    /\ closes = 1

\* the steps of a complete run over n pages, for C9
PageSteps(i) ==
    <<[op |-> "load", page |-> i], [op |-> "render", page |-> i],
      [op |-> "recognize", page |-> i], [op |-> "append", page |-> i]>>
RECURSIVE FullRun(_)
FullRun(n) == IF n = 0 THEN <<[op |-> "open", page |-> NoRef]>>
              ELSE FullRun(n - 1) \o PageSteps(n - 1)
StepEvents == SelectSeq(events, LAMBDA e : e.op \in PageOps \cup {"open", "append"})
StepsTaken == [j \in 1..Len(StepEvents) |-> [op |-> StepEvents[j].op, page |-> StepEvents[j].page]]

\* C9: the open and page steps taken so far (attempts included) are a prefix
\* of open, load 0, render 0, recognize 0, append 0, load 1, ...; a failed
\* step is the last one.
C9_SequentialTrace ==
    /\ Len(StepsTaken) <= Len(FullRun(doc_pages))
    /\ StepsTaken = SubSeq(FullRun(doc_pages), 1, Len(StepsTaken))
    /\ \A j \in 1..Len(StepEvents) : ~StepEvents[j].ok => j = Len(StepEvents)

C9_Witness ==
    /\ pc = "done"
    /\ doc_pages = 3
    /\ exc.origin = "process_page"
    /\ page_index = 2
    /\ Len(StepsTaken) = 12

\* C10: a write is attempted at most once, and only after every page was
\* rendered, recognized and appended; a failed write ends the call by
\* raising, with no page texts, and with the document closed.
C10_WriteAfterAllPages ==
    /\ Cardinality({j \in 1..Len(events) : events[j].op = "write"}) <= 1
    /\ \A j \in 1..Len(events) : events[j].op = "write" =>
          /\ Len(text_pages) = doc_pages
          /\ \A i \in 0..(doc_pages - 1) : \A o \in {"render", "recognize", "append"} :
                \E m \in 1..(j - 1) : events[m] = [op |-> o, page |-> i, ok |-> TRUE]
    /\ (pc = "done" /\ WriteFailed) =>
          /\ result.kind = "raise"
          /\ result.value = <<>>
          /\ closes = 1
          /\ doc = "closed"

C10_Witness ==
    /\ pc = "done"
    /\ WriteFailed
    /\ doc_pages = 2
    /\ result.kind = "raise"

====
